---- MODULE Spec2Model ----
(***************************************************************************)
(* The user-related HTTP route handlers of web_app/api/user.py, over the   *)
(* user store (UserDBConnector), the telegram store                        *)
(* (TelegramUserDBConnector), the position store (PositionDBConnector)     *)
(* and the price lookup (DashboardMixin.get_current_prices).               *)
(***************************************************************************)
EXTENDS Integers, Sequences, FiniteSets, TLC

\* ------------------------------------------------------------- bounds
MaxWallet == 2
MaxTelegram == 1
MaxAmount == 2
MaxPrice == 2
MaxWorkers == 2

Wallets == 1..MaxWallet
TelegramIds == 1..MaxTelegram
Workers == 1..MaxWorkers
Addresses == {"0xA", "0xB"}
Tokens == {"USDC", "ETH", "STRK"}

\* Python's None, for an object that is absent.
None == [none |-> TRUE]
\* A contract_address column that holds no address.
NullAddress == "None"

VARIABLES
    users,          \* user table: wallet id -> rows with that wallet id, oldest first
    telegram,       \* telegram table: telegram id -> row, or None
    token_amounts,  \* position store: token -> summed amount of the open positions
    current_prices, \* outcome of the price lookup: [raised, prices]
    last,           \* the call handled last: arguments, store calls made, response
    prev,           \* the check_user call handled right before `last`, if it was one
    pc,             \* per worker: position inside an interleaved check_user
    local           \* per worker: wallet_id and user of the check_user in progress

vars == <<users, telegram, token_amounts, current_prices, last, prev, pc, local>>

\* ------------------------------------------------------------- user store
UserRow(w, deployed, addr) ==
    [wallet_id |-> w, is_contract_deployed |-> deployed, contract_address |-> addr]

\* user_db.get_user_by_wallet_id: the first row with the wallet id, or None.
user_db_get_user_by_wallet_id(us, w) ==
    IF us[w] = <<>> THEN None ELSE us[w][1]

\* Variant: an insert that checks no unique key.
user_db_create_user_no_unique_key(us, w) ==
    [ok |-> TRUE,
     users |-> [us EXCEPT ![w] = Append(@, UserRow(w, FALSE, NullAddress))]]

\* user_db.create_user: inserts an undeployed user without an address. The
\* wallet id is the table's unique key: a second row is refused.
user_db_create_user(us, w) ==
    IF us[w] # <<>>
    THEN [ok |-> FALSE, users |-> us]
    ELSE [ok |-> TRUE,
          users |-> [us EXCEPT ![w] = Append(@, UserRow(w, FALSE, NullAddress))]]

\* user_db.update_user_contract: stores the address on the user's row and
\* marks the contract deployed.
user_db_update_user_contract(us, user, addr) ==
    [us EXCEPT ![user.wallet_id] =
        <<UserRow(user.wallet_id, TRUE, addr)>> \o Tail(@)]

\* user_db.get_contract_address_by_wallet_id
user_db_get_contract_address_by_wallet_id(us, w) ==
    IF us[w] = <<>> THEN NullAddress ELSE us[w][1].contract_address

\* user_db.get_unique_users_count: the number of distinct wallet ids stored.
user_db_get_unique_users_count(us) ==
    Cardinality({w \in DOMAIN us : us[w] # <<>>})

\* ------------------------------------------------------------- telegram store
TelegramRow(w, allowed) == [wallet_id |-> w, is_allowed_notification |-> allowed]

\* What telegram_db.allow_notification can do for a telegram id: return True
\* after enabling, return a falsy value without enabling, raise ValueError,
\* or raise another exception.
TelegramOutcomes(tg, t) ==
    IF tg[t] # None
    THEN {"True", "Exception"}
    ELSE {"False", "ValueError", "Exception"}

telegram_db_allow_notification(tg, t, outcome) ==
    IF outcome = "True"
    THEN [tg EXCEPT ![t] = TelegramRow(@.wallet_id, TRUE)]
    ELSE tg

\* ------------------------------------------------------------- responses
NoCall ==
    [op |-> "none", wallet_id |-> 0, telegram_id |-> 0,
     contract_address |-> NullAddress,
     found |-> FALSE, created |-> FALSE, wrote |-> FALSE, tg_called |-> FALSE,
     status |-> 0, body |-> None]

Call(op, w, t, addr, found, r) ==
    [op |-> op, wallet_id |-> w, telegram_id |-> t, contract_address |-> addr,
     found |-> found, created |-> r.created, wrote |-> r.wrote,
     tg_called |-> r.tg_called, status |-> r.status, body |-> r.body]

\* What a handler did: the stores after it, the store calls it made, its response.
Result(us, tg, created, wrote, tg_called, status, body) ==
    [users |-> us, telegram |-> tg, created |-> created, wrote |-> wrote,
     tg_called |-> tg_called, status |-> status, body |-> body]

HTTPException(us, tg, status, detail) ==
    Result(us, tg, FALSE, FALSE, FALSE, status, [detail |-> detail])

\* ------------------------------------------------------------- handlers
\* has_user_opened_position: delegates to the position store, whose answer is
\* True, False or a ValueError for a malformed wallet id.
has_user_opened_position(us, tg, answer) ==
    IF answer = "ValueError"
    THEN HTTPException(us, tg, 404, "Invalid wallet ID format")
    ELSE Result(us, tg, FALSE, FALSE, FALSE, 200,
                [has_opened_position |-> (answer = "True")])

\* Variant: the deployment flag is not looked at.
get_user_contract_flag_ignored(us, tg, user) ==
    IF user = None
    THEN HTTPException(us, tg, 404, "User not found")
    ELSE Result(us, tg, FALSE, FALSE, FALSE, 200,
                [contract_address |-> user.contract_address])

get_user_contract(us, tg, user) ==
    IF user = None
    THEN HTTPException(us, tg, 404, "User not found")
    ELSE IF ~user.is_contract_deployed
    THEN HTTPException(us, tg, 404, "Contract not deployed")
    ELSE Result(us, tg, FALSE, FALSE, FALSE, 200,
                [contract_address |-> user.contract_address])

\* Variant: every user that is not deployed is inserted, found or not.
check_user_always_creates(us, tg, user, w) ==
    IF user # None /\ user.is_contract_deployed
    THEN Result(us, tg, FALSE, FALSE, FALSE, 200, [is_contract_deployed |-> TRUE])
    ELSE LET c == user_db_create_user(us, w) IN
         IF c.ok
         THEN Result(c.users, tg, TRUE, FALSE, FALSE, 200,
                     [is_contract_deployed |-> FALSE])
         ELSE HTTPException(us, tg, 500, "Internal Server Error")

\* Variant: a user found undeployed is marked deployed by the check.
check_user_marks_deployed(us, tg, user, w) ==
    IF user # None /\ ~user.is_contract_deployed
    THEN Result(user_db_update_user_contract(us, user, NullAddress), tg,
                FALSE, TRUE, FALSE, 200, [is_contract_deployed |-> TRUE])
    ELSE IF user = None
    THEN LET c == user_db_create_user(us, w) IN
         IF c.ok
         THEN Result(c.users, tg, TRUE, FALSE, FALSE, 200,
                     [is_contract_deployed |-> FALSE])
         ELSE HTTPException(us, tg, 500, "Internal Server Error")
    ELSE Result(us, tg, FALSE, FALSE, FALSE, 200, [is_contract_deployed |-> TRUE])

\* check_user after its read of `user`; a refused insert is an exception no
\* handler catches, answered with 500.
check_user(us, tg, user, w) ==
    IF user # None /\ ~user.is_contract_deployed
    THEN Result(us, tg, FALSE, FALSE, FALSE, 200, [is_contract_deployed |-> FALSE])
    ELSE IF user = None
    THEN LET c == user_db_create_user(us, w) IN
         IF c.ok
         THEN Result(c.users, tg, TRUE, FALSE, FALSE, 200,
                     [is_contract_deployed |-> FALSE])
         ELSE HTTPException(us, tg, 500, "Internal Server Error")
    ELSE Result(us, tg, FALSE, FALSE, FALSE, 200, [is_contract_deployed |-> TRUE])

\* Variant: the write is made for a missing user too (an upsert).
update_user_contract_upsert(us, tg, user, w, addr) ==
    IF user # None
    THEN Result(user_db_update_user_contract(us, user, addr), tg,
                FALSE, TRUE, FALSE, 200, [is_contract_deployed |-> TRUE])
    ELSE Result([us EXCEPT ![w] = <<UserRow(w, TRUE, addr)>>], tg,
                FALSE, TRUE, FALSE, 200, [is_contract_deployed |-> TRUE])

update_user_contract(us, tg, user, w, addr) ==
    IF user # None
    THEN Result(user_db_update_user_contract(us, user, addr), tg,
                FALSE, TRUE, FALSE, 200, [is_contract_deployed |-> TRUE])
    ELSE Result(us, tg, FALSE, FALSE, FALSE, 200, [is_contract_deployed |-> FALSE])

\* Variant: the telegram store is called without the user check.
subscribe_to_notification_unchecked(us, tg, user, t, outcome) ==
    LET tg2 == telegram_db_allow_notification(tg, t, outcome) IN
    IF outcome = "True"
    THEN Result(us, tg2, FALSE, FALSE, TRUE, 200,
                [detail |-> "User subscribed to notifications successfully"])
    ELSE IF outcome = "False"
    THEN Result(us, tg2, FALSE, FALSE, TRUE, 400,
                [detail |-> "Failed to subscribe user to notifications"])
    ELSE Result(us, tg2, FALSE, FALSE, TRUE, 500,
                [detail |-> "Internal Server Error"])

subscribe_to_notification(us, tg, user, t, outcome) ==
    IF user = None
    THEN HTTPException(us, tg, 404, "User not found")
    ELSE LET tg2 == telegram_db_allow_notification(tg, t, outcome) IN
         IF outcome = "True"
         THEN Result(us, tg2, FALSE, FALSE, TRUE, 200,
                     [detail |-> "User subscribed to notifications successfully"])
         ELSE IF outcome = "False"
         THEN Result(us, tg2, FALSE, FALSE, TRUE, 400,
                     [detail |-> "Failed to subscribe user to notifications"])
         ELSE Result(us, tg2, FALSE, FALSE, TRUE, 500,
                     [detail |-> "Internal Server Error"])

get_user_contract_address(us, tg, w) ==
    LET contract_address == user_db_get_contract_address_by_wallet_id(us, w) IN
    Result(us, tg, FALSE, FALSE, FALSE, 200, [contract_address |-> contract_address])

allow_notification(us, tg, t, outcome) ==
    LET tg2 == telegram_db_allow_notification(tg, t, outcome) IN
    IF outcome = "ValueError"
    THEN Result(us, tg2, FALSE, FALSE, TRUE, 404, [detail |-> "ValueError"])
    ELSE IF outcome = "Exception"
    THEN Result(us, tg2, FALSE, FALSE, TRUE, 500, [detail |-> "Internal server error"])
    ELSE Result(us, tg2, FALSE, FALSE, TRUE, 200,
                [message |-> "Notifications enabled successfully"])

\* Variant of the loop: USDC amounts are converted with the USDC price too.
RECURSIVE total_opened_amount_usdc_priced(_, _, _, _)
total_opened_amount_usdc_priced(amounts, prices, todo, total) ==
    IF todo = {} THEN total
    ELSE LET token == CHOOSE t \in todo : TRUE
             amount == amounts[token]
             rest == todo \ {token}
         IN IF token \notin DOMAIN prices \/ "USDC" \notin DOMAIN prices
            THEN total_opened_amount_usdc_priced(amounts, prices, rest, total)
            ELSE total_opened_amount_usdc_priced(amounts, prices, rest,
                                                 total + amount * prices[token])

\* The loop of get_stats over token_amounts.items(), `todo` being the tokens
\* not yet visited and `total` the running total_opened_amount.
RECURSIVE total_opened_amount(_, _, _, _)
total_opened_amount(amounts, prices, todo, total) ==
    IF todo = {} THEN total
    ELSE LET token == CHOOSE t \in todo : TRUE
             amount == amounts[token]
             rest == todo \ {token}
         IN IF token \notin DOMAIN prices \/ "USDC" \notin DOMAIN prices
            THEN total_opened_amount(amounts, prices, rest, total)
            ELSE IF token = "USDC"
            THEN total_opened_amount(amounts, prices, rest, total + amount)
            ELSE total_opened_amount(amounts, prices, rest,
                                     total + amount * prices[token])

\* Variant: the USDC price is read before the loop, a KeyError when it is missing.
get_stats_reads_usdc_price(us, tg, amounts, lookup) ==
    IF lookup.raised \/ "USDC" \notin DOMAIN lookup.prices
    THEN HTTPException(us, tg, 500, "Internal server error")
    ELSE Result(us, tg, FALSE, FALSE, FALSE, 200,
                [total_opened_amount |->
                     total_opened_amount(amounts, lookup.prices, DOMAIN amounts, 0),
                 unique_users |-> user_db_get_unique_users_count(us)])

get_stats(us, tg, amounts, lookup) ==
    IF lookup.raised
    THEN HTTPException(us, tg, 500, "Internal server error")
    ELSE Result(us, tg, FALSE, FALSE, FALSE, 200,
                [total_opened_amount |->
                     total_opened_amount(amounts, lookup.prices, DOMAIN amounts, 0),
                 unique_users |-> user_db_get_unique_users_count(us)])

\* ------------------------------------------------------------- actions
\* The summary kept of a call once the next one is handled.
Summary(c) ==
    IF c.op = "check_user"
    THEN [op |-> c.op, wallet_id |-> c.wallet_id, found |-> c.found,
          created |-> c.created, status |-> c.status, body |-> c.body]
    ELSE [op |-> "other", wallet_id |-> 0, found |-> FALSE,
          created |-> FALSE, status |-> 0, body |-> None]

\* A request handled from start to end: the stores and the call record.
Handle(op, w, t, addr, found, r) ==
    /\ users' = r.users
    /\ telegram' = r.telegram
    /\ last' = Call(op, w, t, addr, found, r)
    /\ prev' = Summary(last)
    /\ UNCHANGED <<token_amounts, current_prices, pc, local>>

HasUserOpenedPosition ==
    \E w \in Wallets, answer \in {"True", "False", "ValueError"} :
        Handle("has_user_opened_position", w, 0, NullAddress, FALSE,
               has_user_opened_position(users, telegram, answer))

GetUserContract ==
    \E w \in Wallets :
        LET user == user_db_get_user_by_wallet_id(users, w) IN
        Handle("get_user_contract", w, 0, NullAddress, user # None,
               get_user_contract(users, telegram, user))

CheckUser ==
    \E w \in Wallets :
        LET user == user_db_get_user_by_wallet_id(users, w) IN
        Handle("check_user", w, 0, NullAddress, user # None,
               check_user(users, telegram, user, w))

UpdateUserContract ==
    \E w \in Wallets, addr \in Addresses :
        LET user == user_db_get_user_by_wallet_id(users, w) IN
        Handle("update_user_contract", w, 0, addr, user # None,
               update_user_contract(users, telegram, user, w, addr))

SubscribeToNotification ==
    \E w \in Wallets, t \in TelegramIds :
        \E outcome \in TelegramOutcomes(telegram, t) :
            LET user == user_db_get_user_by_wallet_id(users, w) IN
            Handle("subscribe_to_notification", w, t, NullAddress, user # None,
                   subscribe_to_notification(users, telegram, user, t, outcome))

GetUserContractAddress ==
    \E w \in Wallets :
        Handle("get_user_contract_address", w, 0, NullAddress, FALSE,
               get_user_contract_address(users, telegram, w))

GetStats ==
    Handle("get_stats", 0, 0, NullAddress, FALSE,
           get_stats(users, telegram, token_amounts, current_prices))

AllowNotification ==
    \E t \in TelegramIds :
        \E outcome \in TelegramOutcomes(telegram, t) :
            Handle("allow_notification", 0, t, NullAddress, FALSE,
                   allow_notification(users, telegram, t, outcome))

\* ------------------------------------------------------------- initial states
\* Partial maps from tokens to 1..n.
TokenMaps(n) == UNION {[S -> 1..n] : S \in SUBSET Tokens}
EmptyMap == [t \in {} |-> 0]

TelegramRows == {TelegramRow(w, a) : w \in Wallets, a \in BOOLEAN}
TelegramStores == [TelegramIds -> TelegramRows \cup {None}]

\* The user tables the unique key allows: per wallet id no row, an
\* undeployed row, or a deployed row with an address.
UserRows(w) ==
    {UserRow(w, FALSE, NullAddress)} \cup {UserRow(w, TRUE, a) : a \in Addresses}
UserStores ==
    {us \in [Wallets -> {<<>>} \cup UNION {{<<r>> : r \in UserRows(w)} : w \in Wallets}] :
        \A w \in Wallets : us[w] = <<>> \/ us[w][1].wallet_id = w}

InitCommon ==
    /\ last = NoCall
    /\ prev = Summary(NoCall)
    /\ pc = [p \in Workers |-> "idle"]
    /\ local = [p \in Workers |-> [wallet_id |-> 0, user |-> None]]

\* A fresh user table; the telegram table as the bot left it; no open
\* positions and a price lookup that answers with no prices.
Init ==
    /\ users = [w \in Wallets |-> <<>>]
    /\ telegram \in TelegramStores
    /\ token_amounts = EmptyMap
    /\ current_prices = [raised |-> FALSE, prices |-> EmptyMap]
    /\ InitCommon

Next ==
    \/ HasUserOpenedPosition
    \/ GetUserContract
    \/ CheckUser
    \/ UpdateUserContract
    \/ SubscribeToNotification
    \/ GetUserContractAddress
    \/ GetStats
    \/ AllowNotification

Spec == Init /\ [][Next]_vars

\* ------------------------------------------------------------- get_stats alone
\* Any user table, any open-position amounts and any outcome of the price
\* lookup; get_stats is applied to them.
Lookups ==
    {[raised |-> FALSE, prices |-> m] : m \in TokenMaps(MaxPrice)}
        \cup {[raised |-> TRUE, prices |-> EmptyMap]}

InitStats ==
    /\ users \in UserStores
    /\ telegram = [t \in TelegramIds |-> None]
    /\ token_amounts \in TokenMaps(MaxAmount)
    /\ current_prices \in Lookups
    /\ InitCommon

NextStats == GetStats

SpecStats == InitStats /\ [][NextStats]_vars

\* ------------------------------------------------------------- interleaved check_user
\* check_user of several workers, interleaved at its two store calls.
CheckUserRead(p) ==
    \E w \in Wallets :
        /\ pc[p] = "idle"
        /\ pc' = [pc EXCEPT ![p] = "read"]
        /\ local' = [local EXCEPT ![p] =
               [wallet_id |-> w, user |-> user_db_get_user_by_wallet_id(users, w)]]
        /\ UNCHANGED <<users, telegram, token_amounts, current_prices, last, prev>>

CheckUserFinish(p) ==
    /\ pc[p] = "read"
    /\ LET r == check_user(users, telegram, local[p].user, local[p].wallet_id) IN
           /\ users' = r.users
           /\ last' = Call("check_user", local[p].wallet_id, 0, NullAddress,
                           local[p].user # None, r)
    /\ pc' = [pc EXCEPT ![p] = "idle"]
    /\ local' = [local EXCEPT ![p] = [wallet_id |-> 0, user |-> None]]
    /\ UNCHANGED <<telegram, token_amounts, current_prices, prev>>

\* Any user table the unique key allows, so that the reads find users of
\* every kind as well as none.
InitConc ==
    /\ users \in UserStores
    /\ telegram = [t \in TelegramIds |-> None]
    /\ token_amounts = EmptyMap
    /\ current_prices = [raised |-> FALSE, prices |-> EmptyMap]
    /\ InitCommon

NextConc ==
    \/ \E p \in Workers : CheckUserRead(p)
    \/ \E p \in Workers : CheckUserFinish(p)

SpecConc == InitConc /\ [][NextConc]_vars

\* ------------------------------------------------------------- properties
\* The wallet ids with at least one row in the user table.
StoredWallets == {w \in Wallets : Len(users[w]) > 0}

\* Some row of wallet id w is marked deployed in the user table us.
IsDeployed(us, w) == \E i \in 1..Len(us[w]) : us[w][i].is_contract_deployed

\* The last two calls were check_user for one wallet id, the first of them
\* finding no user.
TwoChecksOfUnseenWallet ==
    /\ prev.op = "check_user"
    /\ last.op = "check_user"
    /\ prev.wallet_id = last.wallet_id
    /\ ~prev.found

\* C1: two successive check_user calls for a wallet id without a user record
\* create exactly one record, the second call creating nothing, and both
\* answer is_contract_deployed = false.
C1_CheckUserIdempotent ==
    TwoChecksOfUnseenWallet =>
        /\ prev.created /\ ~last.created
        /\ Len(users[last.wallet_id]) = 1
        /\ prev.status = 200 /\ prev.body.is_contract_deployed = FALSE
        /\ last.status = 200 /\ last.body.is_contract_deployed = FALSE

C1_Witness ==
    TwoChecksOfUnseenWallet /\ last.found /\ Len(users[last.wallet_id]) = 1

\* C2: update_user_contract for a wallet id without a user record answers
\* is_contract_deployed = false, does not call user_db.update_user_contract
\* and leaves the user table as it was.
C2_UpdateMissingUserWritesNothing ==
    [][(last'.op = "update_user_contract" /\ ~last'.found) =>
          /\ last'.status = 200
          /\ last'.body.is_contract_deployed = FALSE
          /\ ~last'.wrote
          /\ users' = users]_vars

C2_Witness ==
    /\ last.op = "update_user_contract"
    /\ ~last.found
    /\ users[last.wallet_id] = <<>>
    /\ last.body.is_contract_deployed = FALSE

\* C3: subscribe_to_notification for a wallet id without a user record fails
\* with 404, does not call the telegram store and leaves the telegram table
\* as it was.
C3_SubscribeMissingUser404 ==
    [][(last'.op = "subscribe_to_notification" /\ ~last'.found) =>
          /\ last'.status = 404
          /\ ~last'.tg_called
          /\ telegram' = telegram]_vars

C3_Witness ==
    /\ last.op = "subscribe_to_notification"
    /\ ~last.found
    /\ last.status = 404
    /\ telegram[last.telegram_id] # None

\* C4: a wallet id's deployment flag goes from false (or no record) to true
\* only in a step of update_user_contract for that wallet id.
C4_DeployedOnlyByUpdate ==
    [][\A w \in Wallets :
          (~IsDeployed(users, w) /\ IsDeployed(users', w)) =>
              (last'.op = "update_user_contract" /\ last'.wallet_id = w)]_vars

\* A user created by check_user and then marked deployed by the update.
C4_Witness ==
    /\ prev.op = "check_user" /\ prev.created
    /\ last.op = "update_user_contract" /\ last.wallet_id = prev.wallet_id
    /\ IsDeployed(users, last.wallet_id)

\* C5: with no open positions and a price lookup that returns a price map,
\* get_stats answers total_opened_amount = 0 and unique_users = the number of
\* distinct wallet ids in the user table.
C5_StatsWithoutPositions ==
    (last.op = "get_stats" /\ token_amounts = EmptyMap /\ ~current_prices.raised) =>
        /\ last.status = 200
        /\ last.body.total_opened_amount = 0
        /\ last.body.unique_users = Cardinality(StoredWallets)

C5_Witness ==
    /\ last.op = "get_stats"
    /\ token_amounts = EmptyMap
    /\ ~current_prices.raised
    /\ "USDC" \notin DOMAIN current_prices.prices
    /\ last.body.unique_users = 2

C7_SubscribeLinksWallet ==
    (last.op = "subscribe_to_notification" /\ last.status = 200) =>
        /\ telegram[last.telegram_id] # None
        /\ telegram[last.telegram_id].is_allowed_notification
        /\ telegram[last.telegram_id].wallet_id = last.wallet_id

\* C8: allow_notification answers with the success message only when the
\* telegram store has enabled notifications for telegram_id.
C8_AllowNotificationSuccessMeansEnabled ==
    (last.op = "allow_notification" /\ last.status = 200) =>
        /\ telegram[last.telegram_id] # None
        /\ telegram[last.telegram_id].is_allowed_notification

\* The sum of f[t] over the tokens t of S.
RECURSIVE SumOver(_, _)
SumOver(S, f) ==
    IF S = {} THEN 0
    ELSE LET t == CHOOSE x \in S : TRUE IN f[t] + SumOver(S \ {t}, f)

\* The USDC value of the open amount of token t at the looked-up prices.
UsdcValue(t) ==
    IF t = "USDC" THEN token_amounts[t]
    ELSE token_amounts[t] * current_prices.prices[t]

\* The tokens get_stats converts: all those with a price when the lookup
\* has a USDC entry, none when it has not.
ConvertedTokens ==
    IF "USDC" \in DOMAIN current_prices.prices
    THEN DOMAIN token_amounts \cap DOMAIN current_prices.prices
    ELSE {}

====
